---- MODULE Spec2Model ----
(***************************************************************************)
(* A model of pyplanet.views.generics.list.ListView: one widget instance   *)
(* whose presentation state (search_text, sort_field, sort_order, page,    *)
(* count, objects) lives in instance attributes, the query pipeline        *)
(* (filter, order, count, paginate, execute) that every refresh re-runs,   *)
(* and the event router (handle_catch_all and the subscribed buttons).     *)
(*                                                                         *)
(* A handler is a coroutine.  It runs without interruption up to its next  *)
(* real suspension, and the only suspensions of a refresh are the two      *)
(* database round trips: `await self.model.objects.count(query)` and       *)
(* `await self.model.execute(query)`.  A handler that refreshes is         *)
(* therefore three steps: the handler's entry up to the count request,     *)
(* count_done (up to the execute request) and execute_done (up to the      *)
(* display being sent).  Handlers of one player are serialized by pc; the  *)
(* handlers of different players interleave at these suspensions.          *)
(*                                                                         *)
(* Text is a sequence of one-character strings.  An optional value         *)
(* (Python None or a value) is a sequence of length 0 or 1, except where   *)
(* the value is a name, and then None is the name "None".                  *)
(***************************************************************************)
EXTENDS Integers, Sequences, FiniteSets, TLC

VARIABLES
    logins,        \* configuration: the players that can open the list
    clicks,        \* configuration: the clicks the players try
    texts,         \* configuration: the texts the players search for
    table,         \* configuration: number of rows of the model's table
    query,         \* configuration: ListView.query, the host's base query
    fields,        \* configuration: ListView.fields
    search_text,   \* self.search_text
    sort_field,    \* self.sort_field (the model field, by attribute name)
    sort_order,    \* self.sort_order
    page,          \* self.page
    count,         \* self.count
    objects,       \* self.objects
    sort_mark,     \* field['_sort'] of every entry of self.fields
    pc,            \* per player: where the player's handler is suspended
    req,           \* per player: the query the suspended handler built
    visible,       \* players the manialink is currently displayed to
    shown,         \* per player: the rows of the page last sent to them
    last,          \* the step taken last: event, calls made, display sent
    nextFrom,      \* history: the page and count a _next_page started from,
                   \* while the only event since is at most one _prev_page
    headerRun      \* history: accepted header clicks on one column since
                   \* the list was last unsorted

vars == <<logins, clicks, texts, table, query, fields, search_text, sort_field, sort_order, page,
          count, objects, sort_mark, pc, req, visible, shown, last,
          nextFrom, headerRun>>

config == <<logins, clicks, texts, table, query, fields>>

-----------------------------------------------------------------------------
(* Bounds of the model. *)

\* self.num_per_page, 20 by default and set by the host; scaled down.
PageSize == 2
\* Rows of the table in the configuration with two players.
TinyTable == 3
\* Rows of the table in the configurations with one player and few pages.
SmallTable == 5
\* Rows of the table in the configuration that has more than ten pages.
LargeTable == 22
\* The base query's own predicate keeps the rows with id <= BaseLimit.
BaseLimit == 3

None == "None"

Players == {"alice", "bob"}

-----------------------------------------------------------------------------
(* Text. *)

DigitChars == <<"0", "1", "2", "3", "4", "5", "6", "7", "8", "9">>

IsDigit(c) == \E i \in 1..10 : DigitChars[i] = c

DigitVal(c) == (CHOOSE i \in 1..10 : DigitChars[i] = c) - 1

\* str(n) of a natural number.
RECURSIVE Digits(_)
Digits(n) ==
    IF n < 10 THEN <<DigitChars[n + 1]>>
    ELSE Digits(n \div 10) \o <<DigitChars[(n % 10) + 1]>>

\* int(s) of a non-empty string of digits.
RECURSIVE ToInt(_)
ToInt(s) ==
    IF Len(s) = 0 THEN 0
    ELSE 10 * ToInt(SubSeq(s, 1, Len(s) - 1)) + DigitVal(s[Len(s)])

AllDigits(s) == Len(s) > 0 /\ \A i \in 1..Len(s) : IsDigit(s[i])

\* `sub in text`: substring containment.
Contains(text, sub) ==
    \E i \in 0..(Len(text) - Len(sub)) :
        \A j \in 1..Len(sub) : text[i + j] = sub[j]

\* text1 < text2 in the order of the characters' code points (digits only).
RECURSIVE LexLess(_, _)
LexLess(s, t) ==
    IF Len(t) = 0 THEN FALSE
    ELSE IF Len(s) = 0 THEN TRUE
    ELSE IF s[1] # t[1] THEN DigitVal(s[1]) < DigitVal(t[1])
    ELSE LexLess(Tail(s), Tail(t))

Placeholder == <<"S", "e", "a", "r", "c", "h", ".", ".", ".">>

-----------------------------------------------------------------------------
(* The host's configuration of the widget: fields, actions, model. *)

\* ListView.fields.  'index' names the model attribute a column shows, or is
\* None for a column that shows no attribute; 'action' is the handler of a
\* click on a cell of the column.
Fields == <<
    [name |-> "Name", index |-> "name", sorting |-> TRUE, searching |-> TRUE,
     action |-> "show_row"],
    [name |-> "Author", index |-> "author", sorting |-> TRUE,
     searching |-> TRUE],
    [name |-> "Marker", index |-> None, sorting |-> TRUE],
    [name |-> "Id", index |-> "id"],
    [name |-> "Nick", index |-> "name", sorting |-> FALSE,
     searching |-> FALSE]
>>

\* The fields where the host also made the column with no attribute
\* searchable.
FieldsKeyless ==
    [Fields EXCEPT ![3] = [name |-> "Marker", index |-> None,
                           sorting |-> TRUE, searching |-> TRUE]]

\* The fields where the host made no column searchable.
FieldsUnsearchable ==
    [Fields EXCEPT ![1] = [name |-> "Name", index |-> "name",
                           sorting |-> TRUE, action |-> "show_row"],
                   ![2] = [name |-> "Author", index |-> "author",
                           sorting |-> TRUE, searching |-> FALSE]]

\* ListView.actions.
Actions == <<
    [name |-> "Delete", action |-> "action_delete"],
    [name |-> "Edit", action |-> "action_edit"]
>>

\* iscoroutinefunction(action): show_row and action_edit are plain functions.
IsCoroutineFunction(h) == h = "action_delete"

\* getattr(row, attribute) of the row with primary key e, in a table of n rows.
Attr(e, attribute, n) ==
    CASE attribute = "name" -> Digits(e)
      [] attribute = "author" -> Digits(n + 1 - e)
      [] OTHER -> Digits(e)

-----------------------------------------------------------------------------
(* The query collaborator: a query is a value, built up and then run.      *)
(* where: the disjuncts of the WHERE clause, none meaning no clause;       *)
(* order: the ORDER BY field and direction; paging: the page and page size *)
(* of paginate(), or empty.                                                *)

NoOrder == [field |-> None, desc |-> FALSE]

\* The host's own predicate, as a disjunct: id <= BaseLimit.
BasePredicate == [col |-> "id", text |-> <<>>]

SelectAll == [where |-> {}, order |-> NoOrder, paging |-> <<>>]

SelectSome == [where |-> {BasePredicate}, order |-> NoOrder, paging |-> <<>>]

\* query.orwhere(field.contains(text)): OR the predicate onto the clause.
OrWhere(q, col, text) ==
    [q EXCEPT !.where = @ \cup {[col |-> col, text |-> text]}]

\* query.order_by(order)
OrderBy(q, ord) == [q EXCEPT !.order = ord]

\* query.paginate(page, paginate_by)
Paginate(q, p, per) == [q EXCEPT !.paging = <<[page |-> p, per |-> per]>>]

Satisfies(e, d, n) ==
    IF d = BasePredicate THEN e <= BaseLimit
    ELSE Contains(Attr(e, d.col, n), d.text)

\* The rows the query selects from a table of n rows, in its order,
\* before LIMIT and OFFSET.
Selected(q, n) ==
    LET all == [i \in 1..n |-> i]
        kept == SelectSeq(all, LAMBDA e :
                    q.where = {} \/ \E d \in q.where : Satisfies(e, d, n))
        asc == SortSeq(kept, LAMBDA a, b :
                    LexLess(Attr(a, q.order.field, n), Attr(b, q.order.field, n)))
    IN  IF q.order.field = None THEN kept
        ELSE IF q.order.desc THEN [i \in 1..Len(asc) |-> asc[Len(asc) + 1 - i]]
        ELSE asc

\* await self.model.objects.count(query)
CountOf(q, n) == Len(Selected(q, n))

\* OFFSET of paginate(page, per): (page - 1) * per, and 0 for a page below 1.
Offset(paging) ==
    IF paging.page > 0 THEN (paging.page - 1) * paging.per ELSE 0

\* list(await self.model.execute(query))
ExecuteOf(q, n) ==
    LET rows == Selected(q, n)
    IN  IF q.paging = <<>> THEN rows
        ELSE LET off == Offset(q.paging[1])
                 end == IF off + q.paging[1].per < Len(rows)
                        THEN off + q.paging[1].per ELSE Len(rows)
             IN  SubSeq(rows, off + 1, end)

-----------------------------------------------------------------------------
(* ListView: properties and the steps of the query pipeline. *)

\* ListView.order
order(field, direction) ==
    IF direction # 0 /\ field # None THEN [field |-> field, desc |-> FALSE]
    ELSE IF direction = 0 /\ field # None THEN [field |-> field, desc |-> TRUE]
    ELSE NoOrder

\* ListView.num_pages: int(math.ceil(self.count / self.num_per_page))
num_pages(cnt) == (cnt + PageSize - 1) \div PageSize

\* The loop of apply_filter over self.fields, from field i on.
RECURSIVE FilterFields(_, _, _)
FilterFields(q, text, i) ==
    IF i > Len(fields) THEN q
    ELSE IF "searching" \in DOMAIN fields[i] /\ fields[i].searching
         THEN FilterFields(OrWhere(q, fields[i].index, text), text, i + 1)
         ELSE FilterFields(q, text, i + 1)

\* ListView.apply_filter; text is self.search_text.
apply_filter(q, text) ==
    IF text = <<>> \/ text[1] = <<>> THEN q
    ELSE FilterFields(q, text[1], 1)

\* ListView.apply_ordering; ord is self.order.
apply_ordering(q, ord) ==
    IF ord = NoOrder THEN q ELSE OrderBy(q, ord)

\* ListView.apply_pagination, after the count came back.
apply_pagination(q, p) == Paginate(q, p, PageSize)

\* The query get_object_data has built when it awaits the count.
BuiltQuery(base, text, field, direction) ==
    apply_ordering(apply_filter(base, text), order(field, direction))

-----------------------------------------------------------------------------
(* ListView: what the handlers assign. *)

\* A variant of SortOnColumn with two states: a click on the column sorted
\* descending sorts it ascending again.
SortOnColumnTwoState(field, direction, model_field) ==
    IF field # None /\ field = model_field
    THEN IF direction = 1 THEN <<field, 0>> ELSE <<field, 1>>
    ELSE <<model_field, 1>>

\* A variant of SortOnColumn that keeps the direction when the column changes.
SortOnColumnKeepDirection(field, direction, model_field) ==
    IF field # None /\ field = model_field
    THEN IF direction = 1 THEN <<field, 0>> ELSE <<None, 0>>
    ELSE <<model_field, direction>>

\* handle_catch_all, "Sort on column": the new (sort_field, sort_order) after
\* a click on the header of a column whose model field is model_field.
SortOnColumn(field, direction, model_field) ==
    IF field # None /\ field = model_field
    THEN IF direction = 1 THEN <<field, 0>> ELSE <<None, 0>>
    ELSE <<model_field, 1>>

\* handle_catch_all, "Set sort state on field": field['_sort'] of every
\* field after a click on column col (counted from 0).
Unset == -1

\* A variant of SortState that leaves the marks of the other columns.
SortStateNoReset(col, field, direction) ==
    [i \in 1..Len(fields) |->
        IF field # None /\ i = col + 1 THEN direction ELSE sort_mark[i]]

SortState(col, field, direction) ==
    [i \in 1..Len(fields) |->
        IF field # None /\ i = col + 1 THEN direction ELSE Unset]

\* A variant of SearchValue that does not know the placeholder.
SearchValueNoPlaceholder(text) ==
    IF Len(text) > 0 THEN <<text>> ELSE <<>>

\* _search: the new search_text for the submitted text.
SearchValue(text) ==
    IF Len(text) > 0 /\ text # Placeholder THEN <<text>> ELSE <<>>

\* _first_page
FirstPage == 1

\* _last_page
LastPage(cnt) == num_pages(cnt)

\* A variant of NextPage that steps from the last page too.
NextPagePastEnd(p, cnt) == IF p <= num_pages(cnt) THEN p + 1 ELSE p

\* _next_page
NextPage(p, cnt) == IF p + 1 <= num_pages(cnt) THEN p + 1 ELSE p

\* A variant of Next10Pages with a strict bound check.
Next10PagesStrict(p, cnt) == IF p + 10 < num_pages(cnt) THEN p + 10 ELSE p

\* _next_10_pages
Next10Pages(p, cnt) == IF p + 10 <= num_pages(cnt) THEN p + 10 ELSE p

\* A variant of PrevPage that never goes back to the first page.
PrevPageAboveOne(p) == IF p - 1 > 1 THEN p - 1 ELSE p

\* _prev_page
PrevPage(p) == IF p - 1 > 0 THEN p - 1 ELSE p

\* _prev_10_pages
Prev10Pages(p) == IF p - 10 > 0 THEN p - 10 ELSE p

-----------------------------------------------------------------------------
(* handle_catch_all: decoding an action identifier.  An identifier is its  *)
(* prefix and the rest of the string.                                      *)

\* re.search('^list_header_([0-9]+)$', action).groups(), and <<>> when
\* re.search returns None.
MatchHeader(rest) == IF AllDigits(rest) THEN <<rest>> ELSE <<>>

\* re.search('^list_body_([0-9]+)_([0-9]+)$', action).groups() and the same
\* for list_action_, and <<>> when re.search returns None.
MatchCell(rest) ==
    LET cuts == {k \in 1..Len(rest) :
                    /\ rest[k] = "_"
                    /\ AllDigits(SubSeq(rest, 1, k - 1))
                    /\ AllDigits(SubSeq(rest, k + 1, Len(rest)))}
    IN  IF cuts = {} THEN <<>>
        ELSE LET k == CHOOSE k \in cuts : TRUE
             IN  <<SubSeq(rest, 1, k - 1), SubSeq(rest, k + 1, Len(rest))>>

\* A variant of Triggered that looks every click up in the fields.
TriggeredFields(prefix) == fields

\* The field or action a cell click names: (await self.get_fields())[idx]
\* for a body click, (await self.get_actions())[idx] for an action click.
Triggered(prefix) == IF prefix = "list_body_" THEN fields ELSE Actions

-----------------------------------------------------------------------------
(* Inputs. *)

\* Texts a player submits in the search box: values[0]['Value'].
Texts == {<<>>, Placeholder, <<"1">>, <<"x">>}

\* The texts tried where there are two players.
FewTexts == {<<>>, <<"1">>}

\* The texts that leave the search text as it is at the start: none.
NoTexts == {<<>>, Placeholder}

\* The values payload of an event.
ValuesOf(text) == <<[Value |-> text]>>

\* An event for handle_catch_all: the action identifier, as its prefix and
\* the rest of the string, and the values payload.
Click(prefix, rest, text) ==
    [prefix |-> prefix, rest |-> rest, values |-> ValuesOf(text)]

\* Well-formed, out-of-range and malformed header clicks.
HeaderClicks ==
    {Click("list_header_", r, <<>>) :
        r \in {<<"0">>, <<"1">>, <<"2">>, <<"3">>, <<"4">>, <<"5">>,
               <<"0", "1">>, <<>>, <<"x">>, <<"1", "_", "0">>}}

\* Well-formed, out-of-range and malformed body and action clicks.
CellClicks ==
    {Click(p, r, <<>>) :
        p \in {"list_body_", "list_action_"},
        r \in {<<"0", "_", "0">>, <<"1", "_", "0">>, <<"0", "_", "1">>,
               <<"1", "_", "1">>, <<"2", "_", "0">>, <<"0", "_", "2">>,
               <<"9", "9", "_", "0">>, <<"0", "1", "_", "0">>,
               <<"1">>, <<"1", "_">>, <<"_", "1">>, <<"1", "_", "x">>, <<>>}}
    \cup {Click(p, <<"1", "_", "0">>, <<"1">>) :
            p \in {"list_body_", "list_action_"}}

\* Every click, with an identifier that has none of the three prefixes.
AllClicks == HeaderClicks \cup CellClicks \cup {Click("list_other", <<>>, <<>>)}

\* The clicks tried where there are two players.
DuoClicks ==
    {Click("list_header_", <<"0">>, <<>>),
     Click("list_action_", <<"1", "_", "1">>, <<"1">>)}

\* The clicks tried where the table is larger or the base query restricted.
FewClicks ==
    {Click("list_header_", <<"0">>, <<>>),
     Click("list_header_", <<"3">>, <<>>),
     Click("list_body_", <<"0", "_", "0">>, <<>>),
     Click("list_action_", <<"1", "_", "1">>, <<"1">>)}

-----------------------------------------------------------------------------
(* State. *)

widget == <<search_text, sort_field, sort_order, page, count, objects,
            sort_mark>>

\* The record of a step: the event and the player it came from, the handler
\* calls it made, whether an exception left the handler, whether a warning
\* was logged, the display it sent and the players it hid the list from.
Step(kind, v, rest, values) ==
    [kind |-> kind, login |-> v, rest |-> rest, values |-> values,
     calls |-> <<>>, raised |-> FALSE, warned |-> FALSE, display |-> <<>>,
     hidden |-> {}]

Configurations == {
    [logins |-> Players, clicks |-> DuoClicks, texts |-> FewTexts,
     table |-> TinyTable, query |-> SelectAll, fields |-> Fields],
    [logins |-> {"alice"}, clicks |-> FewClicks, texts |-> Texts,
     table |-> LargeTable, query |-> SelectAll, fields |-> Fields],
    [logins |-> {"alice"}, clicks |-> AllClicks, texts |-> Texts,
     table |-> SmallTable, query |-> SelectAll, fields |-> Fields],
    [logins |-> {"alice"}, clicks |-> FewClicks, texts |-> Texts,
     table |-> SmallTable, query |-> SelectSome, fields |-> Fields]}

\* The configurations where the host's fields differ in what is searchable.
SearchConfigurations == {
    [logins |-> {"alice"}, clicks |-> FewClicks, texts |-> Texts,
     table |-> SmallTable, query |-> SelectAll, fields |-> FieldsKeyless],
    [logins |-> {"alice"}, clicks |-> FewClicks, texts |-> Texts,
     table |-> SmallTable, query |-> SelectAll,
     fields |-> FieldsUnsearchable],
    [logins |-> {"alice"}, clicks |-> FewClicks, texts |-> Texts,
     table |-> SmallTable, query |-> SelectSome,
     fields |-> FieldsUnsearchable]}

\* The configurations where no player changes the search text.
PagingConfigurations == {
    [logins |-> Players, clicks |-> DuoClicks, texts |-> NoTexts,
     table |-> SmallTable, query |-> SelectAll, fields |-> Fields],
    [logins |-> {"alice"}, clicks |-> FewClicks, texts |-> NoTexts,
     table |-> LargeTable, query |-> SelectAll, fields |-> Fields],
    [logins |-> {"alice"}, clicks |-> FewClicks, texts |-> NoTexts,
     table |-> SmallTable, query |-> SelectSome, fields |-> Fields]}

\* ListView.__init__, in one of the configurations.
InitIn(configurations) ==
    /\ \E c \in configurations :
        /\ logins = c.logins
        /\ clicks = c.clicks
        /\ texts = c.texts
        /\ table = c.table
        /\ query = c.query
        /\ fields = c.fields
    /\ search_text = <<>>
    /\ sort_field = None
    /\ sort_order = 1
    /\ page = 1
    /\ count = 0
    /\ objects = <<>>
    /\ sort_mark = [i \in 1..Len(fields) |-> Unset]
    /\ pc = [v \in Players |-> "idle"]
    /\ req = [v \in Players |-> <<>>]
    /\ visible = {}
    /\ shown = [v \in Players |-> <<>>]
    /\ last = Step("init", None, <<>>, <<>>)
    /\ nextFrom = <<>>
    /\ headerRun = <<>>

Init == InitIn(Configurations)

InitSearch == InitIn(SearchConfigurations)

InitPaging == InitIn(PagingConfigurations)

\* A player's handler can start: the player's previous event is handled.
Idle(v) == pc[v] = "idle"

\* The player has the list on screen and can send an event.
CanSend(v) == v \in visible /\ Idle(v)

\* ListView.get_query
get_query == query

\* refresh -> display -> get_context_data -> get_object_data, up to
\* `await self.model.objects.count(query)`: the query is built from the
\* attributes as the handler leaves them.
\* apply_filter raises: the text is not empty and a searchable field has no
\* attribute name, so field['index'] raises KeyError or
\* getattr(self.model, None) raises TypeError.
FilterRaises(text) ==
    /\ text # <<>>
    /\ text[1] # <<>>
    /\ \E i \in 1..Len(fields) :
            /\ "searching" \in DOMAIN fields[i]
            /\ fields[i].searching
            /\ ("index" \notin DOMAIN fields[i] \/ fields[i].index = None)

\* The handler returns without a refresh, or the exception leaves it.
Returning == UNCHANGED <<pc, req>>

Refreshing(v, text, field, direction) ==
    IF FilterRaises(text) THEN Returning
    ELSE /\ pc' = [pc EXCEPT ![v] = "count"]
         /\ req' = [req EXCEPT ![v] =
                        <<BuiltQuery(get_query, text, field, direction)>>]

\* The record of a step that refreshes with the search text `text`.
Refreshed(step, text) ==
    IF FilterRaises(text) THEN [step EXCEPT !.raised = TRUE] ELSE step

-----------------------------------------------------------------------------
(* The steps of a refresh after its suspensions. *)

\* apply_pagination after the count came back, up to
\* `await self.model.execute(query)`.
count_done(v) ==
    /\ v \in logins
    /\ pc[v] = "count"
    /\ count' = CountOf(req[v][1], table)
    /\ req' = [req EXCEPT ![v] = <<apply_pagination(req[v][1], page)>>]
    /\ pc' = [pc EXCEPT ![v] = "execute"]
    /\ last' = Step("count_done", v, <<>>, <<>>)
    /\ UNCHANGED <<config, search_text, sort_field, sort_order, page, objects,
                   sort_mark, visible, shown, nextFrom, headerRun>>

\* The context get_context_data hands to the template.
Context(rows) ==
    [objects |-> rows, search |-> search_text,
     order |-> order(sort_field, sort_order), count |-> count,
     pages |-> num_pages(count), page |-> page, sort |-> sort_mark]

\* A variant of DisplayTo that sends the list to every player.
DisplayToEveryone(v) == logins

\* ListView.display: super().display(player_logins=[login])
DisplayTo(v) == {v}

\* get_object_data after the rows came back, the rest of get_context_data,
\* and the display of the rendered list to the one player.
execute_done(v) ==
    /\ v \in logins
    /\ pc[v] = "execute"
    /\ objects' = ExecuteOf(req[v][1], table)
    /\ req' = [req EXCEPT ![v] = <<>>]
    /\ pc' = [pc EXCEPT ![v] = "idle"]
    /\ visible' = visible \cup DisplayTo(v)
    /\ shown' = [w \in Players |->
                    IF w \in DisplayTo(v) THEN <<objects'>> ELSE shown[w]]
    /\ last' = [Step("execute_done", v, <<>>, <<>>) EXCEPT
                    !.display = <<[to |-> DisplayTo(v),
                                   context |-> Context(objects')]>>]
    /\ UNCHANGED <<config, search_text, sort_field, sort_order, page, count,
                   sort_mark, nextFrom, headerRun>>

-----------------------------------------------------------------------------
(* The handlers, each from its entry to its return or its first            *)
(* suspension.                                                             *)

\* ListView.display(player), called by the host to open the list.
display(v) ==
    /\ v \in logins
    /\ v \notin visible
    /\ Idle(v)
    /\ Refreshing(v, search_text, sort_field, sort_order)
    /\ last' = Refreshed(Step("display", v, <<>>, <<>>), search_text)
    /\ nextFrom' = <<>>
    /\ UNCHANGED <<config, widget, visible, shown, headerRun>>

\* ListView.close, subscribed to list_button_close.
close(v) ==
    /\ v \in logins
    /\ CanSend(v)
    /\ visible' = visible \ {v}
    /\ shown' = [shown EXCEPT ![v] = <<>>]
    /\ last' = [Step("list_button_close", v, <<>>, <<>>) EXCEPT !.hidden = {v}]
    /\ nextFrom' = <<>>
    /\ Returning
    /\ UNCHANGED <<config, widget, headerRun>>

\* ListView.refresh, subscribed to list_button_refresh.
refresh(v) ==
    /\ v \in logins
    /\ CanSend(v)
    /\ Refreshing(v, search_text, sort_field, sort_order)
    /\ last' = Refreshed(Step("list_button_refresh", v, <<>>, <<>>),
                         search_text)
    /\ nextFrom' = <<>>
    /\ UNCHANGED <<config, widget, visible, shown, headerRun>>

\* ListView._search, subscribed to list_button_search.
_search(v, values) ==
    /\ v \in logins
    /\ CanSend(v)
    /\ search_text' = SearchValue(values[1].Value)
    /\ Refreshing(v, search_text', sort_field, sort_order)
    /\ last' = Refreshed(Step("list_button_search", v, <<>>, values),
                         search_text')
    /\ nextFrom' = <<>>
    /\ UNCHANGED <<config, sort_field, sort_order, page, count, objects,
                   sort_mark, visible, shown, headerRun>>

\* The history of _next_page then _prev_page, after a page button.
NextFromAfter(kind) ==
    IF kind = "list_button_next"
    THEN <<[page |-> page, count |-> count, undone |-> FALSE]>>
    ELSE IF kind = "list_button_prev" /\ nextFrom # <<>> /\ ~nextFrom[1].undone
    THEN <<[nextFrom[1] EXCEPT !.undone = TRUE]>>
    ELSE <<>>

\* A page button: the handler assigns self.page and refreshes; the four
\* step buttons return without a refresh when their bound check fails.
Paging(v, kind, target, always) ==
    /\ v \in logins
    /\ CanSend(v)
    /\ page' = target
    /\ IF always \/ target # page
       THEN /\ Refreshing(v, search_text, sort_field, sort_order)
            /\ last' = Refreshed(Step(kind, v, <<>>, <<>>), search_text)
       ELSE /\ Returning
            /\ last' = Step(kind, v, <<>>, <<>>)
    /\ nextFrom' = NextFromAfter(kind)
    /\ UNCHANGED <<config, search_text, sort_field, sort_order, count,
                   objects, sort_mark, visible, shown, headerRun>>

\* ListView._first_page
_first_page(v) == Paging(v, "list_button_first", FirstPage, TRUE)

\* ListView._last_page
_last_page(v) == Paging(v, "list_button_last", LastPage(count), TRUE)

\* ListView._next_page
_next_page(v) == Paging(v, "list_button_next", NextPage(page, count), FALSE)

\* ListView._next_10_pages
_next_10_pages(v) ==
    Paging(v, "list_button_next_10", Next10Pages(page, count), FALSE)

\* ListView._prev_page
_prev_page(v) == Paging(v, "list_button_prev", PrevPage(page), FALSE)

\* ListView._prev_10_pages
_prev_10_pages(v) ==
    Paging(v, "list_button_prev_10", Prev10Pages(page), FALSE)

-----------------------------------------------------------------------------
(* ListView.handle_catch_all *)

\* The handler ends with the attributes as they were and no refresh.
Quiet(step) ==
    /\ last' = step
    /\ nextFrom' = <<>>
    /\ Returning
    /\ UNCHANGED <<config, widget, visible, shown, headerRun>>

\* A variant of Warned where the exception leaves handle_catch_all.
Unhandled(step) == [step EXCEPT !.raised = TRUE]

\* `except Exception as e: logger.warning(...); return` around the lookups
\* of the column, the row and the action.
Warned(step) == [step EXCEPT !.warned = TRUE]

\* The accepted header clicks on one column since the list was unsorted.
RunAfter(col) ==
    IF sort_field = None THEN <<col>>
    ELSE IF headerRun # <<>> /\ headerRun[1] = col /\ Len(headerRun) < 3
         THEN Append(headerRun, col)
         ELSE <<>>

\* A variant of NotSorting that does not look at the field's index.
NotSortingAnyIndex(field) ==
    "sorting" \notin DOMAIN field \/ ~field.sorting

\* "Check if sorting is defined + true": the click is ignored.  A field
\* with no 'index' key raises KeyError here, outside the try.
NotSorting(field) ==
    "sorting" \notin DOMAIN field \/ ~field.sorting \/ field.index = None

\* The branch of an identifier that starts with list_header_.
HeaderClick(v, step) ==
    LET m == MatchHeader(step.rest)
    IN  IF m = <<>>
        THEN \* match is None: len(match.groups()) raises outside the try
             Quiet([step EXCEPT !.raised = TRUE])
        ELSE
        LET col == ToInt(m[1])
        IN  IF col >= Len(fields)
            THEN \* fields[col] raises IndexError inside the try
                 Quiet(Warned(step))
            ELSE
            LET field == fields[col + 1]
            IN  IF "sorting" \in DOMAIN field /\ field.sorting
                   /\ "index" \notin DOMAIN field
                THEN Quiet([step EXCEPT !.raised = TRUE])
                ELSE IF NotSorting(field)
                THEN Quiet(step)
                ELSE
                LET sorted == SortOnColumn(sort_field, sort_order, field.index)
                IN  /\ sort_field' = sorted[1]
                    /\ sort_order' = sorted[2]
                    /\ sort_mark' = SortState(col, sorted[1], sorted[2])
                    /\ Refreshing(v, search_text, sorted[1], sorted[2])
                    /\ last' = Refreshed(step, search_text)
                    /\ nextFrom' = <<>>
                    /\ headerRun' = RunAfter(col)
                    /\ UNCHANGED <<config, search_text, page, count, objects,
                                   visible, shown>>

\* The call handle_catch_all makes for a click on cell idx of row `row`.
HandlerCall(v, values, entry, row) ==
    [handler |-> entry.action, player |-> v, values |-> values,
     instance |-> objects[row + 1],
     awaited |-> IsCoroutineFunction(entry.action)]

\* The branch of an identifier that starts with list_body_ or list_action_.
CellClick(v, step) ==
    LET m == MatchCell(step.rest)
    IN  IF m = <<>>
        THEN Quiet([step EXCEPT !.raised = TRUE])
        ELSE
        LET row == ToInt(m[1])
            idx == ToInt(m[2])
            entries == Triggered(step.kind)
        IN  IF \/ idx >= Len(entries)
               \/ "action" \notin DOMAIN entries[idx + 1]
               \/ row >= Len(objects)
            THEN \* IndexError or KeyError inside the try
                 Quiet(Warned(step))
            ELSE Quiet([step EXCEPT !.calls =
                        <<HandlerCall(v, step.values, entries[idx + 1], row)>>])

handle_catch_all(v, action, values) ==
    /\ v \in logins
    /\ CanSend(v)
    /\ LET step == Step(action.prefix, v, action.rest, values)
       IN  IF action.prefix = "list_header_" THEN HeaderClick(v, step)
           ELSE IF action.prefix \in {"list_body_", "list_action_"}
           THEN CellClick(v, step)
           ELSE Quiet(step)

-----------------------------------------------------------------------------

Next ==
    \E v \in Players :
        \/ display(v)
        \/ close(v)
        \/ refresh(v)
        \/ \E text \in texts : _search(v, ValuesOf(text))
        \/ _first_page(v)
        \/ _prev_10_pages(v)
        \/ _prev_page(v)
        \/ _next_page(v)
        \/ _next_10_pages(v)
        \/ _last_page(v)
        \/ \E c \in clicks :
                handle_catch_all(v, [prefix |-> c.prefix, rest |-> c.rest],
                                 c.values)
        \/ count_done(v)
        \/ execute_done(v)

Spec == Init /\ [][Next]_vars

\* The same widget where the data is not empty and no player changes the
\* search text.
SpecPaging == InitPaging /\ [][Next]_vars

\* The same widget where the host's fields differ in what is searchable.
SpecSearch == InitSearch /\ [][Next]_vars

-----------------------------------------------------------------------------
(* Vocabulary of the properties. *)

\* ceil(cnt / PageSize), as the least number of pages that hold cnt rows.
PagesFor(cnt) ==
    CHOOSE n \in 0..cnt :
        n * PageSize >= cnt /\ (n = 0 \/ (n - 1) * PageSize < cnt)

Columns == 0..(Len(Fields) - 1)

\* Column c is sortable and has a source key.
Sortable(c) ==
    /\ "sorting" \in DOMAIN Fields[c + 1]
    /\ Fields[c + 1].sorting
    /\ Fields[c + 1].index # None

\* The step taken is the click on the header of column c.
HeaderClicked(c) ==
    last'.kind = "list_header_" /\ last'.rest = <<DigitChars[c + 1]>>

Unsorted == sort_field = None /\ order(sort_field, sort_order) = NoOrder

SortedAscending(c) ==
    /\ sort_field = Fields[c + 1].index
    /\ order(sort_field, sort_order) =
            [field |-> Fields[c + 1].index, desc |-> FALSE]

SortedDescending(c) ==
    /\ sort_field = Fields[c + 1].index
    /\ order(sort_field, sort_order) =
            [field |-> Fields[c + 1].index, desc |-> TRUE]

\* The events that assign search text, sort state or page.
SessionEvents ==
    {"list_header_", "list_button_search", "list_button_first",
     "list_button_prev_10", "list_button_prev", "list_button_next",
     "list_button_next_10", "list_button_last"}

CellKinds == {"list_body_", "list_action_"}

-----------------------------------------------------------------------------
(* Properties. *)

\* C1: an event of one player never changes the search text, sort field,
\* sort order or page that the next refresh of another player, who has the
\* list on screen, uses.
C1_SessionStatePerViewer ==
    [][\A a \in logins, b \in visible :
        (a # b /\ last'.login = a /\ last'.kind \in SessionEvents)
            => UNCHANGED <<search_text, sort_field, sort_order, page>>]_vars

\* C2: the handler of a body or action click on row r gets the row that was
\* at index r of the page last displayed to the player who clicked.
C2_ClickResolvesOwnPage ==
    (last.kind \in CellKinds /\ last.calls # <<>>) =>
        \A r \in 0..9 :
            (\E i \in 1..10 : last.rest = <<DigitChars[r + 1], "_", DigitChars[i]>>)
                => /\ r < Len(shown[last.login][1])
                   /\ last.calls[1].instance = shown[last.login][1][r + 1]

\* C3: from Unsorted, consecutive accepted header clicks on one column give
\* SortedAscending, then SortedDescending, then Unsorted with the sort
\* field cleared.
C3_SortToggleCycle ==
    /\ Len(headerRun) = 1 => SortedAscending(headerRun[1])
    /\ Len(headerRun) = 2 => SortedDescending(headerRun[1])
    /\ Len(headerRun) = 3 => Unsorted

C3_Witness == Len(headerRun) = 3 /\ Unsorted /\ last.kind = "list_header_"

\* C4: a header click on a sortable column c, from Unsorted or from a state
\* sorted either way by another column, gives SortedAscending(c).
C4_OtherColumnSortsAscending ==
    [][\A c \in Columns :
        (HeaderClicked(c) /\ Sortable(c) /\ sort_field # Fields[c + 1].index)
            => SortedAscending(c)']_vars

C4_Witness ==
    /\ last.kind = "list_header_"
    /\ last.rest = <<"1">>
    /\ SortedAscending(1)
    /\ headerRun = <<>>

\* C5: a header click on a column that is not sortable or has no source key
\* changes none of search text, sort field, sort order, page, count and
\* objects, and runs no refresh.
C5_UnsortableHeaderIgnored ==
    [][\A c \in Columns :
        (HeaderClicked(c) /\ ~Sortable(c))
            => /\ UNCHANGED <<search_text, sort_field, sort_order, page,
                              count, objects, pc, req>>
               /\ last'.display = <<>>]_vars

C5_Witness ==
    /\ last.kind = "list_header_"
    /\ last.rest \in {<<"2">>, <<"3">>, <<"4">>}
    /\ sort_field # None
    /\ pc[last.login] = "idle"

\* C6: page >= 1 in every reachable state.
C6_PageAtLeastOne == page >= 1

\* C7: next and next-10 add 1 and 10 to page when the result is at most
\* ceil(count / PageSize), prev and prev-10 take 1 and 10 off when the
\* result is at least 1; otherwise page is unchanged; none of them raises.
C7_PageStepsBounded ==
    [][/\ last'.kind = "list_button_next" =>
            page' = IF page + 1 <= PagesFor(count) THEN page + 1 ELSE page
       /\ last'.kind = "list_button_next_10" =>
            page' = IF page + 10 <= PagesFor(count) THEN page + 10 ELSE page
       /\ last'.kind = "list_button_prev" =>
            page' = IF page - 1 >= 1 THEN page - 1 ELSE page
       /\ last'.kind = "list_button_prev_10" =>
            page' = IF page - 10 >= 1 THEN page - 10 ELSE page
       /\ last'.kind \in {"list_button_next", "list_button_next_10",
                          "list_button_prev", "list_button_prev_10"}
            => ~last'.raised]_vars

C7_Witness == last.kind = "list_button_next_10" /\ page >= 11

\* C8: _next_page from a page in 1..numPages - 1, followed by _prev_page,
\* leaves page where it was.
C8_NextThenPrev ==
    (/\ nextFrom # <<>>
     /\ nextFrom[1].undone
     /\ nextFrom[1].page >= 1
     /\ nextFrom[1].page < PagesFor(nextFrom[1].count))
        => page = nextFrom[1].page

C8_Witness ==
    /\ nextFrom # <<>>
    /\ nextFrom[1].undone
    /\ nextFrom[1].page >= 1
    /\ nextFrom[1].page < PagesFor(nextFrom[1].count)
    /\ last.kind = "list_button_prev"

\* C9: _search sets search_text to None for the empty text and for the
\* placeholder and to the text otherwise, leaves page, sort field and sort
\* order unchanged, and starts a refresh.
C9_SearchSetsTextOnly ==
    [][last'.kind = "list_button_search" =>
        LET text == last'.values[1].Value
        IN  /\ search_text' = IF text = <<>> \/ text = Placeholder
                              THEN <<>> ELSE <<text>>
            /\ UNCHANGED <<page, sort_field, sort_order>>
            /\ pc'[last'.login] = "count"]_vars

C9_Witness ==
    /\ last.kind = "list_button_search"
    /\ last.values[1].Value = Placeholder
    /\ search_text = <<>>
    /\ page > 1
    /\ pc[last.login] = "count"

\* C10: an action click on row r and action i, both in range, makes one
\* call: of the handler of action i, with the player, the values and row r
\* of objects.
C10_ActionClickCallsAction ==
    \A r \in 0..9, i \in 0..9 :
        (/\ last.kind = "list_action_"
         /\ last.rest = <<DigitChars[r + 1], "_", DigitChars[i + 1]>>
         /\ r < Len(objects)
         /\ i < Len(Actions))
            => /\ Len(last.calls) = 1
               /\ last.calls[1].handler = Actions[i + 1].action
               /\ last.calls[1].player = last.login
               /\ last.calls[1].values = last.values
               /\ last.calls[1].instance = objects[r + 1]

C10_Witness ==
    /\ last.kind = "list_action_"
    /\ last.rest = <<"1", "_", "0">>
    /\ Len(last.calls) = 1
    /\ last.calls[1].handler = "action_delete"
    /\ last.calls[1].instance = objects[2]

\* The step taken is a well-formed click whose column, row or action index
\* is past the end of the fields, the objects or the actions.
OutOfRangeClick ==
    \/ /\ last'.kind = "list_header_"
       /\ AllDigits(last'.rest)
       /\ ToInt(last'.rest) >= Len(Fields)
    \/ /\ last'.kind \in CellKinds
       /\ \E i \in 1..Len(last'.rest) :
            LET r == SubSeq(last'.rest, 1, i - 1)
                a == SubSeq(last'.rest, i + 1, Len(last'.rest))
            IN  /\ last'.rest[i] = "_"
                /\ AllDigits(r)
                /\ AllDigits(a)
                /\ \/ ToInt(r) >= Len(objects)
                   \/ ToInt(a) >= (IF last'.kind = "list_body_"
                                   THEN Len(Fields) ELSE Len(Actions))

\* C11: a header, body or action click with an index out of range calls no
\* handler, lets no exception out of handle_catch_all, changes none of the
\* search text, sort state, page, count and objects, and starts no refresh.
C11_OutOfRangeDropped ==
    [][OutOfRangeClick =>
        /\ last'.calls = <<>>
        /\ ~last'.raised
        /\ last'.display = <<>>
        /\ UNCHANGED <<widget, pc, req>>]_vars

C11_Witness ==
    /\ last.kind = "list_body_"
    /\ last.rest = <<"9", "9", "_", "0">>
    /\ last.warned
    /\ last.calls = <<>>
    /\ objects # <<>>

\* The step taken has an identifier that starts with one of the three
\* prefixes and does not match the prefix's pattern.
Malformed(step) ==
    \/ step.kind = "list_header_" /\ MatchHeader(step.rest) = <<>>
    \/ step.kind \in CellKinds /\ MatchCell(step.rest) = <<>>

\* C12: a click whose identifier starts with list_header_, list_body_ or
\* list_action_ and does not match the full pattern lets no exception out
\* of handle_catch_all.
C12_MalformedNeverRaises == Malformed(last) => ~last.raised

\* The rows the attributes select now: the base query filtered by the search
\* text and ordered by the sort state, before pagination.
FilteredSet ==
    Selected(BuiltQuery(query, search_text, sort_field, sort_order), table)

\* The rows of `rows` from offset (p - 1) * PageSize on, at most PageSize.
SliceOf(rows, p) ==
    LET off == (p - 1) * PageSize
        at == {i \in 1..Len(rows) : off < i /\ i <= off + PageSize}
    IN  [k \in 1..Cardinality(at) |-> rows[off + k]]

\* C13: when a refresh completes, count is the number of rows of the
\* filtered set, and objects is the slice of the filtered and ordered set at
\* offset (page - 1) * PageSize, of at most PageSize rows.
C13_CountAndSlice ==
    last.kind = "execute_done" =>
        /\ count = Len(FilteredSet)
        /\ Len(objects) <= PageSize
        /\ objects = SliceOf(FilteredSet, page)

\* C13 where one player uses the list and page is at least 1.
C13_CountAndSliceAlone ==
    (last.kind = "execute_done" /\ Cardinality(logins) = 1 /\ page >= 1) =>
        /\ count = Len(FilteredSet)
        /\ Len(objects) <= PageSize
        /\ objects = SliceOf(FilteredSet, page)

\* C14: the count a refresh stores, whatever the search text, is at most
\* the count of a refresh of the same base query on the same table with no
\* search text.
C14_SearchOnlyNarrows ==
    last.kind = "count_done" =>
        count <= CountOf(BuiltQuery(query, <<>>, sort_field, sort_order), table)

\* Column c is searchable and has no source key.
SearchableKeyless(c) ==
    /\ "searching" \in DOMAIN fields[c + 1]
    /\ fields[c + 1].searching
    /\ fields[c + 1].index = None

\* Column c is searchable and has a source key.
SearchableKeyed(c) ==
    /\ "searching" \in DOMAIN fields[c + 1]
    /\ fields[c + 1].searching
    /\ fields[c + 1].index # None

\* The query a refresh is to build: the base query with one predicate for
\* each searchable column that has a source key, and with none of them when
\* there is no search text or no such column.
FilterExpected ==
    LET keyed == {c \in Columns : SearchableKeyed(c)}
    IN  IF search_text = <<>> \/ search_text[1] = <<>> \/ keyed = {}
        THEN query
        ELSE [query EXCEPT !.where = @ \cup
                {[col |-> fields[c + 1].index, text |-> search_text[1]] :
                    c \in keyed}]

\* C15: a search with a text that is not empty raises no error and its
\* refresh filters by the searchable columns that have a source key only;
\* with no searchable column the refresh runs the base query unfiltered.
C15_KeylessSearchableSkipped ==
    (last.kind = "list_button_search" /\ search_text # <<>>) =>
        /\ ~last.raised
        /\ pc[last.login] = "count"
        /\ req[last.login] =
                <<apply_ordering(FilterExpected, order(sort_field, sort_order))>>

\* C15 where no column is searchable and has no source key: this half of
\* the claim holds.
C15_NoSearchableUnfiltered ==
    (/\ last.kind = "list_button_search"
     /\ search_text # <<>>
     /\ \A c \in Columns : ~SearchableKeyless(c)) =>
        /\ ~last.raised
        /\ pc[last.login] = "count"
        /\ req[last.login] =
                <<apply_ordering(FilterExpected, order(sort_field, sort_order))>>

C15_NoSearchableWitness ==
    /\ last.kind = "list_button_search"
    /\ search_text # <<>>
    /\ \A c \in Columns : ~SearchableKeyed(c) /\ ~SearchableKeyless(c)
    /\ req[last.login] # <<>>
    /\ req[last.login][1].where = query.where
    /\ query = SelectSome

\* C16: close hides the list from the player who closed it and from no
\* other, and when the same player opens the list next, the refresh starts
\* with no search text, unsorted and on page 1.
C16_CloseDiscardsState ==
    [][/\ last'.kind = "list_button_close" =>
            /\ last'.hidden = {last'.login}
            /\ visible' = visible \ {last'.login}
       /\ (/\ last.kind = "list_button_close"
           /\ last'.kind = "display"
           /\ last'.login = last.login) =>
            /\ search_text' = <<>>
            /\ Unsorted'
            /\ page' = 1]_vars

\* C16, the part on hiding alone: close hides the list from the player who
\* closed it and from no other.
C16_CloseHidesOne ==
    [][last'.kind = "list_button_close" =>
            /\ last'.hidden = {last'.login}
            /\ visible' = visible \ {last'.login}]_vars

\* C17: the sort marks of the fields agree with the sort state: with no sort
\* field no column is marked; otherwise one column is marked, its source key
\* is the sort field and its mark is the sort order, and no other column is
\* marked.
C17_SortMarksAgree ==
    /\ sort_field = None => \A c \in Columns : sort_mark[c + 1] = Unset
    /\ sort_field # None =>
        \E c \in Columns :
            /\ Fields[c + 1].index = sort_field
            /\ sort_mark[c + 1] = sort_order
            /\ sort_mark[c + 1] # Unset
            /\ \A d \in Columns \ {c} : sort_mark[d + 1] = Unset

C17_Witness ==
    /\ last.kind = "list_header_"
    /\ last.rest = <<"1">>
    /\ sort_field = "author"
    /\ sort_order = 0
    /\ sort_mark = <<Unset, 0, Unset, Unset, Unset>>

\* The step taken is an event that assigns a new search text, sort state or
\* page: a search, the first or last page button, or a header click or page
\* step that changes the sort state or the page.
ChangesSession ==
    \/ last'.kind \in {"list_button_search", "list_button_first",
                       "list_button_last"}
    \/ /\ last'.kind \in {"list_header_", "list_button_next",
                          "list_button_next_10", "list_button_prev",
                          "list_button_prev_10"}
       /\ <<sort_field, sort_order, page>>' # <<sort_field, sort_order, page>>

\* C18: an event that changes search text, sort state or page starts one
\* refresh for the player who sent it, built from the new state; the
\* handler of that player then takes the count, then the rows, and then
\* displays to that player alone and returns; nothing else displays.
C18_ChangeThenOneRefresh ==
    [][\A v \in logins :
        /\ (last'.login = v /\ ChangesSession) =>
            /\ ~last'.raised
            /\ last'.display = <<>>
            /\ pc[v] = "idle"
            /\ pc'[v] = "count"
            /\ req'[v] = <<BuiltQuery(query, search_text', sort_field',
                                      sort_order')>>
        /\ (pc[v] = "count" /\ pc'[v] # "count") =>
            /\ last'.kind = "count_done"
            /\ last'.login = v
            /\ last'.display = <<>>
            /\ pc'[v] = "execute"
        /\ (pc[v] = "execute" /\ pc'[v] # "execute") =>
            /\ last'.kind = "execute_done"
            /\ last'.login = v
            /\ pc'[v] = "idle"
        /\ (last'.kind = "execute_done" /\ last'.login = v) =>
            /\ pc[v] = "execute"
            /\ Len(last'.display) = 1
            /\ last'.display[1].to = {v}
        /\ last'.kind # "execute_done" => last'.display = <<>>]_vars

C18_Witness ==
    /\ logins = Players
    /\ last.kind = "execute_done"
    /\ last.login = "bob"
    /\ last.display[1].to = {"bob"}
    /\ last.display[1].context.page = 2
    /\ last.display[1].context.search # <<>>
    /\ "alice" \in visible
    /\ pc = [v \in Players |-> "idle"]

\* C19: where the data is not empty and the search text is never changed,
\* once a refresh has stored the count, page stays in 1..num_pages whatever
\* page buttons the players press and however their handlers interleave.
C19_PageWithinPages ==
    count >= 1 => (1 <= page /\ page <= PagesFor(count))

C19_Witness ==
    /\ logins = Players
    /\ last.kind = "list_button_last"
    /\ last.login = "bob"
    /\ pc["alice"] = "execute"
    /\ count >= 1
    /\ page = PagesFor(count)
    /\ page > 1

\* C20: when a refresh completes, page is at most the larger of 1 and
\* num_pages, and objects is not empty when count is above 0.
C20_PageHasRows ==
    last.kind = "execute_done" =>
        /\ page <= (IF PagesFor(count) > 1 THEN PagesFor(count) ELSE 1)
        /\ count > 0 => objects # <<>>

====
